---------------------------- MODULE Spec2Model ----------------------------
(***************************************************************************)
(* Link resolution of exodus-gw publishes (exodus_gw/models/publish.py).   *)
(*                                                                         *)
(* The committed contents of the items table are `items`.  A session runs  *)
(* one transaction at a time: it calls Publish.resolve_links, whose two    *)
(* database statements are the two steps ResolveSelect (SELECT ... FOR     *)
(* UPDATE of the linked rows, lines 57-65) and ResolveLinks (the lookup    *)
(* query and the in-memory loop, lines 67-105), and then the caller        *)
(* commits or rolls back.  The ORM flushes the objects assigned to at      *)
(* commit, whether or not a value changed; the before_update listener      *)
(* set_updated stamps each of them.  Statements read the committed table   *)
(* (READ COMMITTED).  ResolveSelect takes the row locks of the select in   *)
(* one step; SpecLive takes them row by row (Call, LockRow, SelectDone),   *)
(* which is where the order of the rows matters.  The CRUD layer, which    *)
(* inserts, updates and deletes rows beside the resolver, is not part of   *)
(* publish.py: its statements are single transactions, subject to the      *)
(* constraints, defaults, cascade and listener the file declares.          *)
(*                                                                         *)
(* snap, seen, envSeen, importEnv, fresh, again, start, last, op and       *)
(* writes record what has happened; no step of the program reads them      *)
(* (writes only bounds the statements of the CRUD layer).                  *)
(***************************************************************************)
EXTENDS Integers, Sequences, FiniteSets, TLC

\* ------------------------------------------------------------------ bounds
NumItems == 3
MaxClock == 1
MaxWrites == 1

\* The absent value (Python None, SQL NULL); "" is the empty string.
NULL == "<null>"

\* The absent timestamp (None in a DateTime column), below every clock value.
NoTime == -1

Sessions   == {"T1", "T2"}
PublishIds == {"P1", "P2"}
URIs       == {"/a", "/b", "/c"}
ItemIds    == 1..NumItems

\* The (publish_id, web_uri) pairs rows are drawn from, in a fixed order.
Slots ==
    << [publish_id |-> "P1", web_uri |-> "/a"],
       [publish_id |-> "P1", web_uri |-> "/b"],
       [publish_id |-> "P1", web_uri |-> "/c"],
       [publish_id |-> "P2", web_uri |-> "/a"] >>

\* Values of the environment variable EXODUS_GW_LINK_ISOLATION.
EnvValues == {NULL, "", "0", "1", "true"}

\* ------------------------------------------------------------- variables
VARIABLES
    items,            \* committed rows of the items table: id -> row
    lockedBy,         \* row lock of each item: a session or NULL
    now,              \* the latest value datetime.utcnow() returned
    environ,          \* os.environ.get("EXODUS_GW_LINK_ISOLATION")
    importEnv,        \* the value environ had when the module was imported
    LINK_ISOLATION,   \* the module global of line 36
    pc,               \* per session: idle, calling, locked, returned, raised,
                      \*   failed
    self_id,          \* per session: the publish resolve_links was called on
    ln_items,         \* per session: the list `ln_items` (line 57)
    loaded,           \* per session: the rows as the SELECT FOR UPDATE returned them
    objs,             \* per session: the ORM objects of ln_items, as assigned to
    modified,         \* per session: the objects with an attribute set (Session.dirty)
    matches,          \* per session: the dict `matches` (line 79), with the row used
    seen,             \* per session: the committed table the lookup query read
    scope,            \* per session: the value of LINK_ISOLATION read at line 74
    envSeen,          \* per session: environ when line 74 was executed
    error,            \* per session: the HTTPExceptions raised by the call, in order
    snap,             \* per session: the committed table when the call started
    fresh,            \* per publish: the session whose committed resolve_links
                      \*   call was the last write to the table, or NULL
    again,            \* per session: fresh[p] when its call on p started
    last,             \* the transaction that ended last, until the next one starts
    publishes,        \* committed rows of the publishes table: id -> row
    start,            \* per session: the clock when its call started
    op,               \* the statement the CRUD layer has just executed, until
                      \*   a session takes its next step
    writes            \* the number of statements the CRUD layer has executed

vars == << items, lockedBy, now, environ, importEnv, LINK_ISOLATION, pc, self_id,
           ln_items, loaded, objs, modified, matches, seen, scope, envSeen, error,
           snap, fresh, again, last, publishes, start, op, writes >>

sessVars == << pc, self_id, ln_items, loaded, objs, modified, matches, seen,
               scope, envSeen, error, snap, again, start >>

\* ----------------------------------------------------------------- helpers
\* Python truthiness of an Optional[str]: `not v`.
IsEmpty(v) == v = NULL \/ v = ""

\* SQL coalesce(v, d).
Coalesce(v, d) == IF v = NULL THEN d ELSE v

\* (os.environ.get("EXODUS_GW_LINK_ISOLATION") or "1") == "1"
EnvIsolation(e) == (IF IsEmpty(e) THEN "1" ELSE e) = "1"

Range(s) == {s[k] : k \in DOMAIN s}

\* The orders in which a query without ORDER BY may return the rows S.
Orders(S) ==
    {s \in [1..Cardinality(S) -> S] : \A a, b \in DOMAIN s : a # b => s[a] # s[b]}

\* The locking select without its filter on link_to.
LinkedRows_All(p) == {i \in DOMAIN items : items[i].publish_id = p}

\* Rows selected by lines 57-65: the publish's items with a non-empty link_to.
LinkedRows(p) ==
    {i \in DOMAIN items :
        /\ items[i].publish_id = p
        /\ Coalesce(items[i].link_to, "") # ""}

\* A SELECT that takes no lock never waits.
CanLock_NoWait(t, rows) == TRUE

\* with_for_update(): the rows can be locked when no other session holds them.
CanLock(t, rows) == \A i \in rows : lockedBy[i] \in {NULL, t}

\* The lookup without the publish filter of line 77.
LookupRows_Global(paths, isolated, p) ==
    {i \in DOMAIN items : items[i].web_uri \in paths}

\* The lookup with the publish filter applied whatever the setting.
LookupRows_Isolated(paths, isolated, p) ==
    {i \in DOMAIN items : items[i].web_uri \in paths /\ items[i].publish_id = p}

\* Lines 73-77: the rows the lookup query returns for the link targets `paths`.
LookupRows(paths, isolated, p) ==
    {i \in DOMAIN items :
        /\ items[i].web_uri \in paths
        /\ (isolated => items[i].publish_id = p)}

\* A lookup made with a locking read.
LookupLocks_ForUpdate(t, rows) ==
    [i \in DOMAIN lockedBy |-> IF i \in rows THEN t ELSE lockedBy[i]]

\* Lines 70-73: the lookup query has no with_for_update(); it locks no row.
LookupLocks(t, rows) == lockedBy

\* A resolver that reads the environment on each call.
ReadIsolation_Environ == EnvIsolation(environ)

\* Line 74: the resolver reads the module global.
ReadIsolation == LINK_ISOLATION

\* Lines 79-85: one entry of `matches`, built from row i of the lookup.
MatchOf(i) ==
    [object_key   |-> items[i].object_key,
     content_type |-> items[i].content_type,
     row          |-> i]

\* The test without its content_type clause.
Unresolvable_KeyOnly(m, uri) ==
    \/ uri \notin DOMAIN m
    \/ IsEmpty(m[uri].object_key)

\* Lines 90-94: the test that raises.
Unresolvable(m, uri) ==
    \/ uri \notin DOMAIN m
    \/ IsEmpty(m[uri].object_key)
    \/ IsEmpty(m[uri].content_type)

\* The two assignments, and the item marked as to be written out again.
Assign_MarkDirty(obj, match) ==
    [obj EXCEPT !.object_key = match.object_key,
                !.content_type = match.content_type,
                !.dirty = TRUE]

\* Only the first of the two assignments.
Assign_KeyOnly(obj, match) == [obj EXCEPT !.object_key = match.object_key]

\* Lines 104-105: the two assignments on a linked item.
Assign(obj, match) ==
    [obj EXCEPT !.object_key = match.object_key,
                !.content_type = match.content_type]

\* A loop that notes the first failure and goes on with the next item.
RECURSIVE Loop_Continue(_, _, _, _, _)
Loop_Continue(lst, k, m, o, mod) ==
    IF k > Len(lst)
    THEN [objs |-> o, modified |-> mod, error |-> << >>]
    ELSE LET i == lst[k]
         IN  IF Unresolvable(m, o[i].link_to)
             THEN LET rest == Loop_Continue(lst, k + 1, m, o, mod)
                  IN  [rest EXCEPT !.error =
                          << [web_uri |-> o[i].web_uri, link_to |-> o[i].link_to] >>]
             ELSE Loop_Continue(lst, k + 1, m,
                                [o EXCEPT ![i] = Assign(o[i], m[o[i].link_to])],
                                mod \cup {i})

\* A loop in which an item assigned to serves, with its new values, as the
\* match of the items after it.
RECURSIVE Loop_Chained(_, _, _, _, _)
Loop_Chained(lst, k, m, o, mod) ==
    IF k > Len(lst)
    THEN [objs |-> o, modified |-> mod, error |-> << >>]
    ELSE LET i == lst[k]
         IN  IF Unresolvable(m, o[i].link_to)
             THEN [objs |-> o, modified |-> mod,
                   error |-> << [web_uri |-> o[i].web_uri, link_to |-> o[i].link_to] >>]
             ELSE LET new == Assign(o[i], m[o[i].link_to])
                      m2  == [u \in DOMAIN m |->
                                 IF m[u].row = i
                                 THEN [m[u] EXCEPT !.object_key = new.object_key,
                                                   !.content_type = new.content_type]
                                 ELSE m[u]]
                  IN  Loop_Chained(lst, k + 1, m2, [o EXCEPT ![i] = new], mod \cup {i})

\* Lines 87-105: the loop over ln_items from position k on.  The result is
\* the objects, the set of objects assigned to, and the exception raised as a
\* one-element sequence (empty when the loop ran to its end).
RECURSIVE Loop(_, _, _, _, _)
Loop(lst, k, m, o, mod) ==
    IF k > Len(lst)
    THEN [objs |-> o, modified |-> mod, error |-> << >>]
    ELSE LET i == lst[k]
         IN  IF Unresolvable(m, o[i].link_to)
             THEN [objs |-> o, modified |-> mod,
                   error |-> << [web_uri |-> o[i].web_uri, link_to |-> o[i].link_to] >>]
             ELSE Loop(lst, k + 1, m,
                       [o EXCEPT ![i] = Assign(o[i], m[o[i].link_to])],
                       mod \cup {i})

\* A listener that also marks the entity as to be written out again.
set_updated_MarkDirty(entity, ts) == [entity EXCEPT !.updated = ts, !.dirty = TRUE]

\* A resolver that commits what it has assigned before it returns or raises.
Written_Committed(t, r) ==
    [i \in DOMAIN items |-> IF i \in r.modified THEN r.objs[i] ELSE items[i]]

\* Lines 87-105 write nothing to the table: the assignments of lines 104-105
\* are made on the session's objects, and the function neither flushes nor
\* commits.  r is the result of the loop.
Written(t, r) == items

\* A listener that stamps only an entity that has no timestamp yet.
set_updated_IfUnset(entity, ts) ==
    IF entity.updated = NoTime THEN [entity EXCEPT !.updated = ts] ELSE entity

\* Lines 145-148: the before_update listener, utcnow() returning ts.
set_updated(entity, ts) == [entity EXCEPT !.updated = ts]

\* A flush that writes back one of the modified objects only.
Flush_First(t, ts) ==
    [i \in DOMAIN items |->
        IF i \in modified[t] /\ (\A j \in modified[t] : i <= j)
        THEN set_updated(objs[t][i], ts)
        ELSE items[i]]

\* A flush that stamps every item of the publish of a modified object.
Flush_StampPublish(t, ts) ==
    [i \in DOMAIN items |->
        IF i \in modified[t] THEN set_updated(objs[t][i], ts)
        ELSE IF \E j \in modified[t] : items[j].publish_id = items[i].publish_id
             THEN set_updated(items[i], ts)
             ELSE items[i]]

\* The flush at commit: every modified object goes through before_update and
\* is written back.
Flush(t, ts) ==
    [i \in DOMAIN items |->
        IF i \in modified[t] THEN set_updated(objs[t][i], ts) ELSE items[i]]

\* A table without the unique constraint.
UniqueViolation_None(tbl, i, p, u) == FALSE

\* Lines 110-114: UniqueConstraint("publish_id", "web_uri").  Row i, written
\* with publish_id p and web_uri u, collides with another row of tbl.
UniqueViolation(tbl, i, p, u) ==
    \E j \in DOMAIN tbl :
        j # i /\ tbl[j].publish_id = p /\ tbl[j].web_uri = u

\* Lines 138-140: ForeignKey("publishes.id"): the publish must exist.
ForeignKeyViolation(p) == p \notin DOMAIN publishes

\* A relationship that does not cascade the delete.
Cascade_None(p) == {}

\* Lines 50-52: cascade="all, delete-orphan": the items deleted with publish p.
Cascade(p) == {i \in DOMAIN items : items[i].publish_id = p}

\* An attribute the caller does not assign.
KEEP == "<keep>"

\* The caller's assignments on a loaded entity, before the flush.
Patched(v, new) == IF new = KEEP THEN v ELSE new
PatchedTime(v, new) == IF new = NoTime THEN v ELSE new

\* An insert that goes through the listener as an update does.
Inserted_Stamped(row, given, ts) == [row EXCEPT !.updated = ts]

\* Lines 129-131: on insert, `updated` is the value the caller gave, or the
\* column default datetime.utcnow; before_update is not called.
Inserted(row, given, ts) ==
    [row EXCEPT !.updated = IF given = NoTime THEN ts ELSE given]

\* datetime.utcnow(): a reading not before the latest one.
UtcNow == now..MaxClock

\* Ending the transaction releases its row locks.
Release(t) == [i \in DOMAIN lockedBy |-> IF lockedBy[i] = t THEN NULL ELSE lockedBy[i]]

InCall  == {"locked"}
Ended   == {"returned", "raised"}
AtRest  == {"idle"}
\* In the locking select; the select failed with a database error.
Waiting == {"calling"}
Failed  == {"failed"}

\* ------------------------------------------------------------------- Init
\* What a row holds besides its place: plain items (no link) with complete
\* or partial attributes, and linked items not yet resolved or carrying the
\* values of an earlier resolution.
PlainContents ==
    {[link_to |-> NULL, object_key |-> "k1", content_type |-> "t1"],
     [link_to |-> NULL, object_key |-> "k1", content_type |-> ""],
     [link_to |-> "",   object_key |-> "",   content_type |-> "t1"]}

LinkedContents ==
    {[link_to |-> u, object_key |-> NULL, content_type |-> NULL] : u \in URIs}
    \cup {[link_to |-> u, object_key |-> "k2", content_type |-> "t2"] : u \in {"/b", "/c"}}

Contents == PlainContents \cup LinkedContents

\* Rows are placed on distinct slots (the unique constraint of lines 110-114),
\* in increasing slot order.
Layouts ==
    {l \in [ItemIds -> DOMAIN Slots] : \A a, b \in ItemIds : a < b => l[a] < l[b]}

\* Item row: columns of lines 116-140.  dirty defaults to True (line 126) and
\* is cleared once the item was written out; the items of P2 start written.
Row(slot, c) ==
    [publish_id   |-> slot.publish_id,
     web_uri      |-> slot.web_uri,
     link_to      |-> c.link_to,
     object_key   |-> c.object_key,
     content_type |-> c.content_type,
     dirty        |-> slot.publish_id = "P1",
     updated      |-> 0]

\* Publish row: columns of lines 47-49; `updated` has no default.
PublishRow == [state |-> "PENDING", updated |-> NoTime]

NoLast ==
    [outcome |-> "none", session |-> NULL, self_id |-> NULL,
     snap |-> << >>, loaded |-> << >>, objs |-> << >>,
     modified |-> {}, error |-> << >>, again |-> NULL,
     seen |-> << >>, start |-> 0]

\* item is 0 and publish is NULL where the statement is not on one.
NoOp == [kind |-> "none", error |-> "none", item |-> 0, publish |-> NULL,
         given |-> NoTime, before |-> << >>]

InitSessions ==
    /\ pc = [t \in Sessions |-> "idle"]
    /\ self_id = [t \in Sessions |-> NULL]
    /\ ln_items = [t \in Sessions |-> << >>]
    /\ loaded = [t \in Sessions |-> << >>]
    /\ objs = [t \in Sessions |-> << >>]
    /\ modified = [t \in Sessions |-> {}]
    /\ matches = [t \in Sessions |-> << >>]
    /\ seen = [t \in Sessions |-> << >>]
    /\ scope = [t \in Sessions |-> TRUE]
    /\ envSeen = [t \in Sessions |-> NULL]
    /\ error = [t \in Sessions |-> << >>]
    /\ snap = [t \in Sessions |-> << >>]
    /\ again = [t \in Sessions |-> NULL]
    /\ start = [t \in Sessions |-> 0]
    /\ last = NoLast

InitStore(cs) ==
    /\ \E l \in Layouts, c \in [ItemIds -> cs] :
          items = [i \in ItemIds |-> Row(Slots[l[i]], c[i])]
    /\ lockedBy = [i \in ItemIds |-> NULL]
    /\ now = 0
    /\ fresh = [p \in PublishIds |-> NULL]
    /\ publishes = [p \in PublishIds |-> PublishRow]
    /\ op = NoOp
    /\ writes = 0

\* Module import: line 36 is evaluated once.
InitEnv(es) ==
    /\ environ \in es
    /\ importEnv = environ
    /\ LINK_ISOLATION = EnvIsolation(environ)

Init ==
    /\ InitStore(Contents)
    /\ InitEnv({NULL, "0"})
    /\ InitSessions

\* ---------------------------------------------------------------- actions
\* resolve_links, lines 55-65: the session's transaction starts with the
\* locking SELECT, which waits while another transaction holds one of the rows.
ResolveSelect(t, p) ==
    /\ pc[t] \in AtRest
    /\ p \in DOMAIN publishes
    /\ CanLock(t, LinkedRows(p))
    /\ \E lst \in Orders(LinkedRows(p)) :
          ln_items' = [ln_items EXCEPT ![t] = lst]
    /\ lockedBy' = [i \in DOMAIN lockedBy |->
                       IF i \in LinkedRows(p) THEN t ELSE lockedBy[i]]
    /\ loaded' = [loaded EXCEPT ![t] = [i \in LinkedRows(p) |-> items[i]]]
    /\ objs' = [objs EXCEPT ![t] = [i \in LinkedRows(p) |-> items[i]]]
    /\ self_id' = [self_id EXCEPT ![t] = p]
    /\ snap' = [snap EXCEPT ![t] = items]
    /\ again' = [again EXCEPT ![t] = fresh[p]]
    /\ start' = [start EXCEPT ![t] = now]
    /\ pc' = [pc EXCEPT ![t] = "locked"]
    /\ last' = NoLast
    /\ op' = NoOp
    /\ UNCHANGED << items, now, environ, importEnv, LINK_ISOLATION, modified,
                    matches, seen, scope, envSeen, error, fresh,
                    publishes, writes >>

\* resolve_links, lines 67-105: the lookup query, the dict and the loop.
\* When several rows of the lookup share a web_uri, the dict keeps the one
\* the query returned last, which is any of them.
ResolveLinks(t) ==
    /\ pc[t] \in InCall
    /\ LET paths == {objs[t][i].link_to : i \in Range(ln_items[t])}
           iso   == ReadIsolation
           rows  == LookupRows(paths, iso, self_id[t])
           found == {items[i].web_uri : i \in rows}
       IN  \E pick \in [found -> rows] :
              /\ \A u \in found : items[pick[u]].web_uri = u
              /\ LET m == [u \in found |-> MatchOf(pick[u])]
                     r == Loop(ln_items[t], 1, m, objs[t], {})
                 IN  /\ matches' = [matches EXCEPT ![t] = m]
                     /\ objs' = [objs EXCEPT ![t] = r.objs]
                     /\ modified' = [modified EXCEPT ![t] = r.modified]
                     /\ error' = [error EXCEPT ![t] = r.error]
                     /\ items' = Written(t, r)
                     /\ lockedBy' = LookupLocks(t, rows)
                     /\ pc' = [pc EXCEPT ![t] =
                                  IF r.error = << >> THEN "returned" ELSE "raised"]
              /\ seen' = [seen EXCEPT ![t] = items]
              /\ scope' = [scope EXCEPT ![t] = iso]
              /\ envSeen' = [envSeen EXCEPT ![t] = environ]
    /\ op' = NoOp
    /\ UNCHANGED << now, environ, importEnv, LINK_ISOLATION,
                    self_id, ln_items, loaded, snap, fresh, again, last,
                    publishes, start, writes >>

\* The transaction of session t is over: the locals of the call are gone and
\* the session's objects are expired; `last` keeps what the transaction was.
EndOf(t, outcome) ==
    /\ last' = [outcome |-> outcome, session |-> t, self_id |-> self_id[t],
                snap |-> snap[t], loaded |-> loaded[t], objs |-> objs[t],
                modified |-> modified[t], error |-> error[t], again |-> again[t],
                seen |-> seen[t], start |-> start[t]]
    /\ pc' = [pc EXCEPT ![t] = "idle"]
    /\ self_id' = [self_id EXCEPT ![t] = NULL]
    /\ ln_items' = [ln_items EXCEPT ![t] = << >>]
    /\ loaded' = [loaded EXCEPT ![t] = << >>]
    /\ objs' = [objs EXCEPT ![t] = << >>]
    /\ modified' = [modified EXCEPT ![t] = {}]
    /\ matches' = [matches EXCEPT ![t] = << >>]
    /\ seen' = [seen EXCEPT ![t] = << >>]
    /\ scope' = [scope EXCEPT ![t] = TRUE]
    /\ envSeen' = [envSeen EXCEPT ![t] = NULL]
    /\ error' = [error EXCEPT ![t] = << >>]
    /\ snap' = [snap EXCEPT ![t] = << >>]
    /\ start' = [start EXCEPT ![t] = 0]

\* The caller commits: the session flushes and the locks are released.
Commit(t) ==
    /\ pc[t] \in Ended
    /\ \E ts \in UtcNow :
          /\ items' = Flush(t, ts)
          /\ now' = ts
    /\ lockedBy' = Release(t)
    /\ fresh' = [p \in PublishIds |->
                    IF p = self_id[t] /\ pc[t] = "returned" THEN t
                    ELSE IF modified[t] = {} THEN fresh[p] ELSE NULL]
    /\ again' = [s \in Sessions |->
                    IF s # t /\ modified[t] = {} THEN again[s] ELSE NULL]
    /\ EndOf(t, "committed")
    /\ op' = NoOp
    /\ UNCHANGED << environ, importEnv, LINK_ISOLATION, publishes, writes >>

\* The caller rolls back: pending changes are dropped, the locks released.
Rollback(t) ==
    /\ pc[t] \in Ended \cup Failed
    /\ lockedBy' = Release(t)
    /\ again' = [again EXCEPT ![t] = NULL]
    /\ EndOf(t, "rolledback")
    /\ op' = NoOp
    /\ UNCHANGED << items, now, environ, importEnv, LINK_ISOLATION, fresh,
                    publishes, writes >>

\* The environment variable is changed in the running process.
SetEnv(v) ==
    /\ v # environ
    /\ environ' = v
    /\ UNCHANGED << items, lockedBy, now, importEnv, LINK_ISOLATION, fresh, last,
                    publishes, op, writes >>
    /\ UNCHANGED sessVars

\* ------------------------------------------------------- the CRUD layer
\* Each statement of the CRUD layer is a transaction of its own, committed
\* (or, on an IntegrityError, rolled back) in the same step.
CrudDone(kind, err, item, publish, given) ==
    /\ writes < MaxWrites
    /\ writes' = writes + 1
    /\ op' = [kind |-> kind, error |-> err, item |-> item, publish |-> publish,
              given |-> given, before |-> items]
    /\ last' = NoLast
    /\ fresh' = [p \in PublishIds |-> NULL]
    /\ UNCHANGED << lockedBy, environ, importEnv, LINK_ISOLATION, sessVars >>

\* What an inserted item holds besides its place: a plain item at /a, an
\* item linked to /a elsewhere.
InsertContents(u) ==
    IF u = "/a"
    THEN [link_to |-> NULL, object_key |-> "k3", content_type |-> "t3"]
    ELSE [link_to |-> "/a", object_key |-> NULL, content_type |-> NULL]

\* The `updated` its constructor is given: none for the plain item, which
\* takes the column default, an old time for the linked one.
InsertGiven(u) == IF u = "/a" THEN NoTime ELSE 0

\* session.add(Item(publish_id=p, web_uri=u, ...)); commit.  dirty takes its
\* default (line 126).
InsertItem(p, u, c, given) ==
    /\ ItemIds \ DOMAIN items # {}
    /\ LET id  == CHOOSE i \in ItemIds \ DOMAIN items :
                      \A j \in ItemIds \ DOMAIN items : i <= j
           row == [publish_id |-> p, web_uri |-> u, link_to |-> c.link_to,
                   object_key |-> c.object_key, content_type |-> c.content_type,
                   dirty |-> TRUE, updated |-> NoTime]
       IN  IF ForeignKeyViolation(p) \/ UniqueViolation(items, id, p, u)
           THEN /\ CrudDone("insert_item", "IntegrityError", id, p, given)
                /\ UNCHANGED << items, publishes, now >>
           ELSE /\ \E ts \in UtcNow :
                      /\ items' = [i \in DOMAIN items \cup {id} |->
                                      IF i = id THEN Inserted(row, given, ts)
                                      ELSE items[i]]
                      /\ now' = ts
                /\ CrudDone("insert_item", "none", id, p, given)
                /\ UNCHANGED publishes

\* What the CRUD layer assigns on an item: one attribute, two attributes, or
\* another web_uri, and in each case possibly `updated` as well.
ItemPatches ==
    {[web_uri |-> KEEP, object_key |-> "k3", content_type |-> KEEP, updated |-> NoTime],
     [web_uri |-> KEEP, object_key |-> "k3", content_type |-> "t3", updated |-> 0],
     [web_uri |-> "/a", object_key |-> KEEP, content_type |-> KEEP, updated |-> NoTime]}

\* Load item i, assign, commit.  The UPDATE waits while another transaction
\* holds the row; the flush calls before_update.
UpdateItem(i, patch) ==
    /\ i \in DOMAIN items
    /\ lockedBy[i] = NULL
    /\ LET new == [items[i] EXCEPT
                      !.web_uri = Patched(@, patch.web_uri),
                      !.object_key = Patched(@, patch.object_key),
                      !.content_type = Patched(@, patch.content_type),
                      !.updated = PatchedTime(@, patch.updated)]
       IN  IF UniqueViolation(items, i, new.publish_id, new.web_uri)
           THEN /\ CrudDone("update_item", "IntegrityError", i, items[i].publish_id, patch.updated)
                /\ UNCHANGED << items, publishes, now >>
           ELSE /\ \E ts \in UtcNow :
                      /\ items' = [items EXCEPT ![i] = set_updated(new, ts)]
                      /\ now' = ts
                /\ CrudDone("update_item", "none", i, items[i].publish_id, patch.updated)
                /\ UNCHANGED publishes

\* Publish(...) is added and committed: an insert, `updated` stays unset.
CreatePublish(p) ==
    /\ p \notin DOMAIN publishes
    /\ publishes' = [q \in DOMAIN publishes \cup {p} |->
                        IF q = p THEN PublishRow ELSE publishes[q]]
    /\ CrudDone("insert_publish", "none", 0, p, NoTime)
    /\ UNCHANGED << items, now >>

\* Load publish p, assign its state and `updated`, commit.
UpdatePublish(p, given) ==
    /\ p \in DOMAIN publishes
    /\ \E ts \in UtcNow :
          /\ publishes' = [publishes EXCEPT ![p] =
                  set_updated([@ EXCEPT !.state = "COMMITTED",
                                        !.updated = PatchedTime(@, given)], ts)]
          /\ now' = ts
    /\ CrudDone("update_publish", "none", 0, p, given)
    /\ UNCHANGED items

\* session.delete(publish); commit.  The DELETE of an item waits while
\* another transaction holds the row.
DeletePublish(p) ==
    /\ p \in DOMAIN publishes
    /\ \A i \in Cascade(p) : lockedBy[i] = NULL
    /\ items' = [i \in DOMAIN items \ Cascade(p) |-> items[i]]
    /\ publishes' = [q \in DOMAIN publishes \ {p} |-> publishes[q]]
    /\ CrudDone("delete_publish", "none", 0, p, NoTime)
    /\ UNCHANGED now

Crud ==
    \/ \E p \in PublishIds, u \in {"/a", "/b"} :
          InsertItem(p, u, InsertContents(u), InsertGiven(u))
    \/ \E i \in ItemIds, patch \in ItemPatches : UpdateItem(i, patch)
    \/ \E p \in PublishIds : CreatePublish(p)
    \/ \E p \in PublishIds : UpdatePublish(p, 0)
    \/ \E p \in PublishIds : DeletePublish(p)

\* What one session does.
Step(t) ==
    \/ \E p \in PublishIds : ResolveSelect(t, p)
    \/ ResolveLinks(t)
    \/ Commit(t)
    \/ Rollback(t)

\* One session: the transactions run one after the other.
Next == Step("T1")

Spec == Init /\ [][Next]_vars

\* Two sessions, each in its own transaction, interleaved statement by
\* statement.
ConcContents ==
    {[link_to |-> NULL, object_key |-> "k1", content_type |-> "t1"],
     [link_to |-> "/b", object_key |-> NULL, content_type |-> NULL],
     [link_to |-> "/c", object_key |-> NULL, content_type |-> NULL]}

InitConc ==
    /\ InitStore(ConcContents)
    /\ InitEnv({NULL, "0"})
    /\ InitSessions

NextConc == \E t \in Sessions : Step(t)

SpecConc == InitConc /\ [][NextConc]_vars

\* One session, in a process whose environment changes while it runs.
InitConfig ==
    /\ InitStore(ConcContents)
    /\ InitEnv(EnvValues)
    /\ InitSessions

NextConfig ==
    \/ Step("T1")
    \/ \E v \in EnvValues : SetEnv(v)

SpecConfig == InitConfig /\ [][NextConfig]_vars

\* One session, and the CRUD layer writing to the tables between its steps.
\* The tables it starts from: a publish with a link and its target; a link
\* whose target is in the other publish only; and both, the web_uri of the
\* target held by the two publishes with different values.
CrudTables ==
    LET plain(k, c) == [link_to |-> NULL, object_key |-> k, content_type |-> c]
        link(u)     == [link_to |-> u, object_key |-> NULL, content_type |-> NULL]
    IN  {<< Row(Slots[1], plain("k1", "t1")), Row(Slots[2], link("/a")) >>,
         << Row(Slots[2], link("/a")), Row(Slots[4], plain("k1", "t1")) >>,
         << Row(Slots[1], plain("k1", "t1")), Row(Slots[2], link("/a")),
            Row(Slots[4], plain("k2", "t2")) >>}

\* The publishes table holds the publish of every item, and maybe the other.
InitCrud ==
    /\ items \in CrudTables
    /\ \E ps \in SUBSET PublishIds :
          /\ \A i \in DOMAIN items : items[i].publish_id \in ps
          /\ publishes = [p \in ps |-> PublishRow]
    /\ lockedBy = [i \in ItemIds |-> NULL]
    /\ now = 0
    /\ fresh = [p \in PublishIds |-> NULL]
    /\ op = NoOp
    /\ writes = 0
    /\ InitEnv({NULL, "0"})
    /\ InitSessions

NextCrud ==
    \/ Step("T1")
    \/ Crud

SpecCrud == InitCrud /\ [][NextCrud]_vars

\* Two sessions, and the CRUD layer updating items between their steps.
MixedTables ==
    {[i \in 1..3 |-> Row(Slots[l[i]], c[i])] :
        l \in {<<1, 2, 4>>},
        c \in {<< [link_to |-> NULL, object_key |-> "k1", content_type |-> "t1"],
                  [link_to |-> "/a", object_key |-> NULL, content_type |-> NULL],
                  x >> :
                x \in {[link_to |-> NULL, object_key |-> "k1", content_type |-> "t1"],
                       [link_to |-> "/b", object_key |-> NULL, content_type |-> NULL]}}}

InitMixed ==
    /\ items \in MixedTables
    /\ lockedBy = [i \in ItemIds |-> NULL]
    /\ now = 0
    /\ fresh = [p \in PublishIds |-> NULL]
    /\ publishes = [p \in PublishIds |-> PublishRow]
    /\ op = NoOp
    /\ writes = 0
    /\ InitEnv({NULL})
    /\ InitSessions

\* The CRUD layer assigns an object_key.
KeyPatch ==
    [web_uri |-> KEEP, object_key |-> "k3", content_type |-> KEEP, updated |-> NoTime]

NextMixed ==
    \/ \E t \in Sessions : Step(t)
    \/ \E i \in ItemIds : UpdateItem(i, KeyPatch)

SpecMixed == InitMixed /\ [][NextMixed]_vars

\* ------------------------------------------- the locking select, row by row
\* The database locks the rows of a SELECT ... FOR UPDATE one after the
\* other, as the query returns them; the query of lines 57-65 has no ORDER
\* BY, so the order is any.

\* The positions of ln_items whose row the session has not locked yet.
Pending(t) == {k \in DOMAIN ln_items[t] : lockedBy[ln_items[t][k]] # t}

\* The row the select locks next.
NextRow(t) == ln_items[t][CHOOSE k \in Pending(t) : \A j \in Pending(t) : k <= j]

\* Session t waits for a row that session s holds.
WaitsFor(t, s) ==
    /\ pc[t] \in Waiting
    /\ Pending(t) # {}
    /\ lockedBy[NextRow(t)] = s

\* resolve_links, lines 55-65: the locking select starts.
Call(t, p) ==
    /\ pc[t] \in AtRest
    /\ p \in DOMAIN publishes
    /\ \E lst \in Orders(LinkedRows(p)) :
          ln_items' = [ln_items EXCEPT ![t] = lst]
    /\ self_id' = [self_id EXCEPT ![t] = p]
    /\ snap' = [snap EXCEPT ![t] = items]
    /\ again' = [again EXCEPT ![t] = fresh[p]]
    /\ start' = [start EXCEPT ![t] = now]
    /\ pc' = [pc EXCEPT ![t] = "calling"]
    /\ last' = NoLast
    /\ UNCHANGED << items, lockedBy, now, environ, importEnv, LINK_ISOLATION,
                    loaded, objs, modified, matches, seen, scope, envSeen, error,
                    fresh, publishes, op, writes >>

\* The select locks its next row, once no other transaction holds it.
LockRow(t) ==
    /\ pc[t] \in Waiting
    /\ Pending(t) # {}
    /\ CanLock(t, {NextRow(t)})
    /\ lockedBy' = [lockedBy EXCEPT ![NextRow(t)] = t]
    /\ UNCHANGED << items, now, environ, importEnv, LINK_ISOLATION, fresh, last,
                    publishes, op, writes >>
    /\ UNCHANGED sessVars

\* Lines 57-65 are done: .all() returns the locked rows as committed.
SelectDone(t) ==
    /\ pc[t] \in Waiting
    /\ Pending(t) = {}
    /\ loaded' = [loaded EXCEPT ![t] = [i \in Range(ln_items[t]) |-> items[i]]]
    /\ objs' = [objs EXCEPT ![t] = [i \in Range(ln_items[t]) |-> items[i]]]
    /\ pc' = [pc EXCEPT ![t] = "locked"]
    /\ UNCHANGED << items, lockedBy, now, environ, importEnv, LINK_ISOLATION,
                    self_id, ln_items, modified, matches, seen, scope, envSeen,
                    error, snap, again, start, fresh, last, publishes, op, writes >>

\* Two transactions wait for each other: the database aborts one of them,
\* whose select raises and whose locks are released.
DeadlockDetected(t) ==
    /\ \E s \in Sessions \ {t} : WaitsFor(t, s) /\ WaitsFor(s, t)
    /\ pc' = [pc EXCEPT ![t] = "failed"]
    /\ lockedBy' = Release(t)
    /\ UNCHANGED << items, now, environ, importEnv, LINK_ISOLATION,
                    self_id, ln_items, loaded, objs, modified, matches, seen,
                    scope, envSeen, error, snap, again, start, fresh, last,
                    publishes, op, writes >>

\* The caller ends the transaction.
EndTransaction(t) == Commit(t) \/ Rollback(t)

StepLive(t) ==
    \/ \E p \in PublishIds : Call(t, p)
    \/ LockRow(t)
    \/ SelectDone(t)
    \/ DeadlockDetected(t)
    \/ ResolveLinks(t)
    \/ EndTransaction(t)

\* Publishes with a chain, a cycle and an item linked to itself.
LiveTables ==
    {[i \in 1..3 |-> Row(Slots[i], c[i])] :
        c \in {[i \in 1..3 |-> x[i]] :
                 x \in {<< [link_to |-> NULL, object_key |-> "k1", content_type |-> "t1"],
                           [link_to |-> "/a", object_key |-> NULL, content_type |-> NULL],
                           [link_to |-> "/b", object_key |-> NULL, content_type |-> NULL] >>,
                        << [link_to |-> "/a", object_key |-> NULL, content_type |-> NULL],
                           [link_to |-> "/c", object_key |-> NULL, content_type |-> NULL],
                           [link_to |-> "/b", object_key |-> NULL, content_type |-> NULL] >>}}}

InitLive ==
    /\ items \in LiveTables
    /\ lockedBy = [i \in ItemIds |-> NULL]
    /\ now = 0
    /\ fresh = [p \in PublishIds |-> NULL]
    /\ publishes = [p \in PublishIds |-> PublishRow]
    /\ op = NoOp
    /\ writes = 0
    /\ InitEnv({NULL})
    /\ InitSessions

NextLive == \E t \in Sessions : StepLive(t)

\* A session that can take a step of its call or end its transaction does
\* so; a waiting select gets the row once it is free often enough (the
\* database queues the waiters of a row).
Fairness ==
    \A t \in Sessions :
        /\ SF_vars(LockRow(t))
        /\ WF_vars(SelectDone(t))
        /\ WF_vars(DeadlockDetected(t))
        /\ WF_vars(ResolveLinks(t))
        /\ WF_vars(EndTransaction(t))

SpecLive == InitLive /\ [][NextLive]_vars /\ Fairness

\* ------------------------------------------------------------- properties
\* The rows of table `tbl` a lookup for `uri` may use under the scope
\* `isolated`, for a call on publish p.
Targets(tbl, uri, isolated, p) ==
    {r \in DOMAIN tbl :
        /\ tbl[r].web_uri = uri
        /\ (isolated => tbl[r].publish_id = p)}

\* The items of publish p in table `tbl` that link to another item: those
\* whose link_to is neither absent nor empty.
Linked(tbl, p) ==
    {i \in DOMAIN tbl :
        /\ tbl[i].publish_id = p
        /\ tbl[i].link_to # NULL
        /\ tbl[i].link_to # ""}

\* The linked items of the publish the call of session t is on.
LinkedOf(t) == Linked(snap[t], self_id[t])

\* The linked items of the publish of the transaction that ended last.
LinkedOfLast == Linked(last.snap, last.self_id)

\* The row the call of session t used as the match of item i.
UsedRow(t, i) == matches[t][objs[t][i].link_to].row

\* C1: when resolve_links(P) has returned normally, every item of P with a
\* non-empty link_to has a non-empty object_key and content_type, equal to
\* those the lookup read on the row used as its target, a row in scope whose
\* web_uri is that link_to.
C1_LinkedItemsResolved ==
    \A t \in Sessions :
        pc[t] = "returned" =>
            /\ Range(ln_items[t]) = LinkedOf(t)
            /\ \A i \in LinkedOf(t) :
                  /\ ~IsEmpty(objs[t][i].object_key)
                  /\ ~IsEmpty(objs[t][i].content_type)
                  /\ objs[t][i].link_to \in DOMAIN matches[t]
                  /\ UsedRow(t, i) \in
                        Targets(seen[t], objs[t][i].link_to, scope[t], self_id[t])
                  /\ objs[t][i].object_key = seen[t][UsedRow(t, i)].object_key
                  /\ objs[t][i].content_type = seen[t][UsedRow(t, i)].content_type

\* A call returned on a chain: an item received new values from a target
\* that is itself a linked item of the publish.
C1_Witness ==
    \E t \in Sessions :
        /\ pc[t] = "returned"
        /\ \E i, j \in LinkedOf(t) :
              /\ i # j
              /\ UsedRow(t, i) = j
              /\ objs[t][i].object_key # loaded[t][i].object_key

\* Item i of the call of session t cannot be resolved: no row in scope has
\* its link_to as web_uri, or the row used lacks object_key or content_type.
Unresolved(t, i) ==
    LET u == seen[t][i].link_to
    IN  \/ Targets(seen[t], u, scope[t], self_id[t]) = {}
        \/ /\ u \in DOMAIN matches[t]
           /\ \/ IsEmpty(seen[t][matches[t][u].row].object_key)
              \/ IsEmpty(seen[t][matches[t][u].row].content_type)

\* C2: resolve_links(P) raises exactly when some linked item of P is
\* unresolved, the error names the web_uri and link_to of such an item, and
\* otherwise the call returns.
C2_RaisesIffUnresolved ==
    \A t \in Sessions :
        pc[t] \in Ended =>
            /\ pc[t] = "raised" <=> \E i \in LinkedOf(t) : Unresolved(t, i)
            /\ pc[t] = "raised" <=> error[t] # << >>
            /\ pc[t] = "raised" =>
                  \E i \in LinkedOf(t) :
                      /\ Unresolved(t, i)
                      /\ error[t] = << [web_uri |-> seen[t][i].web_uri,
                                        link_to |-> seen[t][i].link_to] >>

\* A call raised for a target that exists but lacks its content_type, and
\* another call returned.
C2_Witness ==
    \E t \in Sessions :
        /\ pc[t] = "raised"
        /\ \E i \in LinkedOf(t) :
              /\ error[t][1].web_uri = seen[t][i].web_uri
              /\ seen[t][i].link_to \in DOMAIN matches[t]
              /\ ~IsEmpty(matches[t][seen[t][i].link_to].object_key)
              /\ IsEmpty(matches[t][seen[t][i].link_to].content_type)

\* C3: in isolated mode every match, and so every value copied, comes from a
\* row of the publish the call is on, and a linked item whose link_to is no
\* web_uri of that publish makes the call raise, whatever other publishes hold.
C3_IsolatedStaysInPublish ==
    \A t \in Sessions :
        (pc[t] \in Ended /\ LINK_ISOLATION) =>
            /\ \A u \in DOMAIN matches[t] :
                  seen[t][matches[t][u].row].publish_id = self_id[t]
            /\ \A i \in modified[t] :
                  /\ seen[t][UsedRow(t, i)].publish_id = self_id[t]
                  /\ objs[t][i].object_key = seen[t][UsedRow(t, i)].object_key
                  /\ objs[t][i].content_type = seen[t][UsedRow(t, i)].content_type
            /\ (\E i \in LinkedOf(t) :
                    \A r \in DOMAIN seen[t] :
                        seen[t][r].publish_id = self_id[t]
                            => seen[t][r].web_uri # seen[t][i].link_to)
                  => pc[t] = "raised"

\* Isolated mode, a call on P2 raised: its item links to a web_uri P2 lacks
\* and P1 holds with object_key and content_type.
C3_Witness ==
    \E t \in Sessions :
        /\ LINK_ISOLATION
        /\ pc[t] = "raised"
        /\ self_id[t] = "P2"
        /\ \E i \in LinkedOf(t), r \in DOMAIN items :
              /\ items[r].publish_id = "P1"
              /\ items[r].web_uri = items[i].link_to
              /\ ~IsEmpty(items[r].object_key)
              /\ ~IsEmpty(items[r].content_type)
              /\ Targets(items, items[i].link_to, TRUE, "P2") = {}

\* The columns of a row the resolver has no business with.
Identity(row) ==
    [publish_id |-> row.publish_id, web_uri |-> row.web_uri,
     link_to |-> row.link_to, dirty |-> row.dirty]

\* C6: resolve_links modifies no item without a link_to and no item of
\* another publish, changes only object_key and content_type on the linked
\* items of P (web_uri, link_to, dirty and publish_id stay), and neither
\* creates nor deletes an item; this holds in the open transaction and in
\* the table once the transaction has ended.
C6_OnlyLinkedItemsChange ==
    /\ \A t \in Sessions :
          pc[t] \in Ended =>
              /\ DOMAIN objs[t] = LinkedOf(t)
              /\ modified[t] \subseteq LinkedOf(t)
              /\ \A i \in DOMAIN objs[t] :
                    /\ Identity(objs[t][i]) = Identity(loaded[t][i])
                    /\ objs[t][i].updated = loaded[t][i].updated
              /\ items = snap[t]
    /\ last.outcome # "none" =>
          /\ DOMAIN items = DOMAIN last.snap
          /\ \A i \in DOMAIN items :
                IF i \in LinkedOfLast
                THEN Identity(items[i]) = Identity(last.snap[i])
                ELSE items[i] = last.snap[i]

\* A call that wrote a linked item was committed, in a publish that also
\* holds an item without link and next to an item of another publish.
C6_Witness ==
    /\ last.outcome = "committed"
    /\ \E i \in last.modified : items[i].object_key # last.snap[i].object_key
    /\ \E j \in DOMAIN items :
          items[j].publish_id = last.self_id /\ j \notin LinkedOfLast
    /\ \E j \in DOMAIN items : items[j].publish_id # last.self_id

\* C7: a call that raised stopped at the first unresolved item of its list:
\* it raised one error, naming that item; the items before it carry the
\* values copied from their matches, and the items after it were not touched.
C7_FailFastNoCompensation ==
    \A t \in Sessions :
        pc[t] = "raised" =>
            /\ Len(error[t]) = 1
            /\ \E k \in 1..Len(ln_items[t]) :
                  /\ error[t][1] = [web_uri |-> loaded[t][ln_items[t][k]].web_uri,
                                     link_to |-> loaded[t][ln_items[t][k]].link_to]
                  /\ Unresolved(t, ln_items[t][k])
                  /\ \A j \in 1..(k - 1) :
                        LET i == ln_items[t][j]
                        IN  /\ ~Unresolved(t, i)
                            /\ i \in modified[t]
                            /\ objs[t][i].object_key = matches[t][loaded[t][i].link_to].object_key
                            /\ objs[t][i].content_type = matches[t][loaded[t][i].link_to].content_type
                  /\ \A j \in k..Len(ln_items[t]) :
                        LET i == ln_items[t][j]
                        IN  i \notin modified[t] /\ objs[t][i] = loaded[t][i]

\* A call raised after it had given an item new values, with a resolvable
\* item still to come in its list.
C7_Witness ==
    \E t \in Sessions :
        /\ pc[t] = "raised"
        /\ \E i \in modified[t] : objs[t][i].object_key # loaded[t][i].object_key
        /\ \E i \in Range(ln_items[t]) : i \notin modified[t] /\ ~Unresolved(t, i)

\* C8: when the caller has rolled back after the call raised, the table is
\* as it was before the call, for every item of every publish, and the
\* session holds no lock.
C8_RollbackRestores ==
    (last.outcome = "rolledback" /\ last.error # << >>) =>
        /\ items = last.snap
        /\ \A i \in DOMAIN lockedBy : lockedBy[i] # last.session

\* A call that had given an item new values raised and was rolled back.
C8_Witness ==
    /\ last.outcome = "rolledback"
    /\ last.error # << >>
    /\ \E i \in last.modified : last.objs[i].object_key # last.loaded[i].object_key

\* The link_to of item i has one row outside the publish p and none in it,
\* and that row holds an object_key and a content_type.
OnlyElsewhere(tbl, i, p) ==
    /\ Cardinality(Targets(tbl, tbl[i].link_to, FALSE, p)) = 1
    /\ \A r \in Targets(tbl, tbl[i].link_to, FALSE, p) :
          /\ tbl[r].publish_id # p
          /\ ~IsEmpty(tbl[r].object_key)
          /\ ~IsEmpty(tbl[r].content_type)

\* C10: with isolation off, a linked item whose link_to is a web_uri of
\* another publish only, held there with object_key and content_type, is
\* never the item the call fails on; it receives that row's values when the
\* call reaches it, and the call returns when every linked item is such.
C10_GlobalScopeResolves ==
    \A t \in Sessions :
        (pc[t] \in Ended /\ ~LINK_ISOLATION) =>
            /\ \A i \in LinkedOf(t) :
                  OnlyElsewhere(seen[t], i, self_id[t]) =>
                      /\ ~Unresolved(t, i)
                      /\ error[t] # << [web_uri |-> seen[t][i].web_uri,
                                        link_to |-> seen[t][i].link_to] >>
                      /\ (pc[t] = "returned" \/ i \in modified[t]) =>
                            \E r \in Targets(seen[t], seen[t][i].link_to, FALSE, self_id[t]) :
                                /\ objs[t][i].object_key = seen[t][r].object_key
                                /\ objs[t][i].content_type = seen[t][r].content_type
            /\ (\A i \in LinkedOf(t) : OnlyElsewhere(seen[t], i, self_id[t]))
                  => pc[t] = "returned"

\* Isolation off: a call on P2 returned and its item carries the values of
\* an item of P1.
C10_Witness ==
    \E t \in Sessions :
        /\ ~LINK_ISOLATION
        /\ pc[t] = "returned"
        /\ self_id[t] = "P2"
        /\ \E i \in LinkedOf(t) :
              /\ OnlyElsewhere(seen[t], i, "P2")
              /\ objs[t][i].object_key # loaded[t][i].object_key
              /\ objs[t][i].object_key = "k1"

\* Every link_to of the linked items of publish p has at most one row in scope.
UniqueTargets(tbl, p) ==
    \A i \in Linked(tbl, p) :
        Cardinality(Targets(tbl, tbl[i].link_to, LINK_ISOLATION, p)) <= 1

\* The target of item i is another linked item of the same publish p.
Chained(tbl, p, i) ==
    \E r \in Linked(tbl, p) : r # i /\ tbl[r].web_uri = tbl[i].link_to

\* The call is a second call: it started on a publish whose resolution by
\* the previous call was committed, with no write to the table since.
SecondCall(t) == again[t] # NULL /\ UniqueTargets(snap[t], self_id[t])
SecondCallLast == last.again # NULL /\ UniqueTargets(last.snap, last.self_id)

\* C5 as stated, taken where no link_to has two rows in scope: a second
\* resolve_links(P), on a publish the previous committed call resolved with
\* no write since, raises no error and, once committed, leaves every
\* attribute of every item as it was, the last-modified timestamp included.
C5_SecondCallChangesNothing ==
    /\ \A t \in Sessions : SecondCall(t) => pc[t] # "raised"
    /\ (SecondCallLast /\ last.outcome = "committed") => items = last.snap

\* C5 amended: when every link_to has a single row in scope (as always in
\* isolated mode), the second call raises no error and, once committed, has
\* left every item without link and every item of another publish as it
\* was; on a linked item of P it has left web_uri, link_to, dirty and
\* publish_id as they were, and object_key and content_type too unless the
\* item's target is another linked item of P; the last-modified timestamp
\* of the linked items is stamped again, never backwards.
C5_SecondCallStable ==
    /\ \A t \in Sessions : SecondCall(t) => pc[t] # "raised"
    /\ (SecondCallLast /\ last.outcome = "committed") =>
          \A i \in DOMAIN items :
              IF i \in LinkedOfLast
              THEN /\ Identity(items[i]) = Identity(last.snap[i])
                   /\ items[i].updated >= last.snap[i].updated
                   /\ ~Chained(last.snap, last.self_id, i) =>
                         /\ items[i].object_key = last.snap[i].object_key
                         /\ items[i].content_type = last.snap[i].content_type
              ELSE items[i] = last.snap[i]

\* A second call on a resolved publish was committed: it stamped a linked
\* item again, and changed the values of a linked item whose target is
\* itself a linked item.
C5_Witness ==
    /\ SecondCallLast
    /\ last.outcome = "committed"
    /\ \E i \in LinkedOfLast :
          /\ ~Chained(last.snap, last.self_id, i)
          /\ items[i].updated > last.snap[i].updated
    /\ \E i \in LinkedOfLast :
          /\ Chained(last.snap, last.self_id, i)
          /\ items[i].object_key # last.snap[i].object_key

C9_ScopeFollowsConfiguration ==
    \A t \in Sessions :
        pc[t] \in Ended => scope[t] = EnvIsolation(envSeen[t])

\* C9 amended: the scope flag is computed once, when the module is loaded,
\* from the environment as it is then; every call of the process uses that
\* value, whatever the environment holds when the call is made.
C9_ScopeFixedAtImport ==
    /\ LINK_ISOLATION = EnvIsolation(importEnv)
    /\ \A t \in Sessions :
          pc[t] \in Ended => scope[t] = EnvIsolation(importEnv)

\* A second call on a publish ended after the environment had changed to
\* the other scope: it still used the scope of the import.
C9_Witness ==
    \E t \in Sessions :
        /\ pc[t] \in Ended
        /\ again[t] # NULL
        /\ EnvIsolation(envSeen[t]) # EnvIsolation(importEnv)
        /\ scope[t] = EnvIsolation(importEnv)


\* No two rows of table tbl have the same publish_id and web_uri.
UniqueInPublish(tbl) ==
    \A i, j \in DOMAIN tbl :
        (tbl[i].publish_id = tbl[j].publish_id /\ tbl[i].web_uri = tbl[j].web_uri)
            => i = j

\* C11: no two items of a publish ever have the same web_uri, in the table
\* and in every table a call has read; an insert or update that collides
\* with a row of the same publish fails with an IntegrityError and leaves
\* both tables as they were, before and after a resolution.
C11_UniqueWebUriInPublish ==
    /\ UniqueInPublish(items)
    /\ \A t \in Sessions : pc[t] \in Ended => UniqueInPublish(seen[t])
    /\ op.error # "none" =>
          /\ op.error = "IntegrityError"
          /\ op.kind \in {"insert_item", "update_item"}
          /\ items = op.before
    /\ (op.kind \in {"insert_item", "update_item"} /\ op.error = "none") =>
          \A j \in DOMAIN op.before :
              j # op.item =>
                  ~(/\ op.before[j].publish_id = items[op.item].publish_id
                    /\ op.before[j].web_uri = items[op.item].web_uri)

\* An update that would have moved an item onto the web_uri of another item
\* of its publish failed, in a table where the other publish holds that
\* web_uri too and where a resolution had been committed before.
C11_Witness ==
    /\ op.error = "IntegrityError"
    /\ op.kind = "update_item"
    /\ \E i, j \in DOMAIN items :
          /\ items[i].web_uri = items[j].web_uri
          /\ items[i].publish_id # items[j].publish_id
    /\ \E i \in DOMAIN items :
          ~IsEmpty(items[i].link_to) /\ ~IsEmpty(items[i].object_key)

\* C12: an update of an Item or a Publish that was persisted has set its
\* last-modified timestamp to the time of the flush, whatever the caller had
\* assigned to it and however many attributes were assigned, and has stamped
\* no other row; an insert has left the timestamp at the value given or at
\* the column default (none for a Publish).  So every linked item a
\* committed resolve_links call has assigned to carries the time of the
\* commit, not earlier than the start of the call, and the linked items the
\* call did not reach keep their timestamp.
C12_UpdateStampsOnce ==
    /\ (op.kind = "update_item" /\ op.error = "none") =>
          /\ items[op.item].updated = now
          /\ items[op.item].updated >= op.before[op.item].updated
          /\ \A j \in DOMAIN items : j # op.item => items[j] = op.before[j]
    /\ op.kind = "update_publish" =>
          /\ publishes[op.publish].updated = now
          /\ items = op.before
    /\ (op.kind = "insert_item" /\ op.error = "none") =>
          /\ items[op.item].updated = (IF op.given = NoTime THEN now ELSE op.given)
          /\ \A j \in DOMAIN op.before : items[j] = op.before[j]
    /\ op.kind = "insert_publish" =>
          /\ publishes[op.publish].updated = NoTime
          /\ items = op.before
    /\ last.outcome = "committed" =>
          /\ \A i \in last.modified :
                /\ items[i].updated = now
                /\ items[i].updated >= last.start
          /\ \A i \in DOMAIN last.loaded :
                i \notin last.modified => items[i].updated = last.loaded[i].updated

\* An update that assigned two attributes and an old timestamp was
\* persisted: the item carries the time of the flush, later than the value
\* assigned and than the one it had.
C12_Witness ==
    /\ op.kind = "update_item"
    /\ op.error = "none"
    /\ op.given # NoTime
    /\ items[op.item].updated > op.given
    /\ items[op.item].object_key # op.before[op.item].object_key
    /\ items[op.item].content_type # op.before[op.item].content_type

\* C13: every item belongs to a publish that exists; when a Publish has
\* been deleted, all the items it owned are gone with it, and the items of
\* the other publishes are there as they were.
C13_DeleteCascades ==
    /\ \A i \in DOMAIN items : items[i].publish_id \in DOMAIN publishes
    /\ op.kind = "delete_publish" =>
          /\ op.publish \notin DOMAIN publishes
          /\ DOMAIN items =
                {j \in DOMAIN op.before : op.before[j].publish_id # op.publish}
          /\ \A j \in DOMAIN items : items[j] = op.before[j]

\* A publish that owned a linked item, resolved before, was deleted beside
\* a publish whose item stays.
C13_Witness ==
    /\ op.kind = "delete_publish"
    /\ \E j \in DOMAIN op.before :
          /\ op.before[j].publish_id = op.publish
          /\ ~IsEmpty(op.before[j].link_to)
          /\ ~IsEmpty(op.before[j].object_key)
    /\ items # << >>

\* C14: while a call is in flight, the committed table, which is what any
\* other transaction reads, holds each of the call's linked rows as the
\* call found it; once the call's transaction is committed the table holds
\* the values of every item the call assigned to, and once it is rolled
\* back the values of none.  No committed table holds the values of some
\* of the items a call assigned to and not of the others.
C14_VisibleAtCommitTogether ==
    /\ \A t \in Sessions :
          pc[t] # "idle" =>
              \A i \in Range(ln_items[t]) : items[i] = loaded[t][i]
    /\ last.outcome = "committed" =>
          \A i \in last.modified :
              /\ items[i].object_key = last.objs[i].object_key
              /\ items[i].content_type = last.objs[i].content_type
    /\ last.outcome = "rolledback" =>
          \A i \in DOMAIN last.loaded : items[i] = last.loaded[i]

\* A call that gave two linked items new values was committed while the
\* other session was in a call of its own; and before that commit the
\* table held none of the new values.
C14_Witness ==
    /\ last.outcome = "committed"
    /\ \E i, j \in last.modified :
          /\ i # j
          /\ items[i].object_key # last.loaded[i].object_key
          /\ items[j].object_key # last.loaded[j].object_key
    /\ \E t \in Sessions : pc[t] \in Ended

\* C15: the lookup takes no lock: the only rows a session holds are the
\* linked rows its locking select returned, so a row the lookup read as a
\* target that is not one of them is free for any other transaction to
\* write; and what a committed call has written on a linked item is what
\* its lookup read on a row with that web_uri, whatever that row holds by
\* the time of the commit.
C15_LookupTakesNoLock ==
    /\ \A i \in DOMAIN lockedBy :
          lockedBy[i] # NULL => i \in Range(ln_items[lockedBy[i]])
    /\ \A t \in Sessions :
          pc[t] \in Ended =>
              \A u \in DOMAIN matches[t] :
                  matches[t][u].row \notin Range(ln_items[t])
                      => lockedBy[matches[t][u].row] = NULL
    /\ last.outcome = "committed" =>
          \A i \in last.modified :
              \E r \in DOMAIN last.seen :
                  /\ last.seen[r].web_uri = items[i].link_to
                  /\ last.seen[r].object_key = items[i].object_key
                  /\ last.seen[r].content_type = items[i].content_type

\* A call was committed after another transaction had changed, and
\* committed, the object_key of the one item its linked item points to, an
\* item without link, between the call's lookup and its commit: the linked
\* item carries the value the lookup read, and the target another one.
C15_Witness ==
    /\ last.outcome = "committed"
    /\ \E i \in last.modified, r \in DOMAIN items :
          /\ \A q \in DOMAIN items : items[q].web_uri = items[i].link_to <=> q = r
          /\ r \in DOMAIN last.seen
          /\ IsEmpty(items[r].link_to)
          /\ items[r].publish_id = items[i].publish_id
          /\ last.seen[r].object_key = items[i].object_key
          /\ items[r].object_key # items[i].object_key

\* C16: in isolated mode the table the lookup read holds at most one row in
\* scope for each link_to, and when the call has returned every linked item
\* carries the object_key and content_type of that one row, a row of the
\* publish itself; a link_to with two rows in scope is met in non-isolated
\* mode only.
C16_IsolatedLookupUnambiguous ==
    \A t \in Sessions :
        pc[t] \in Ended =>
            /\ \A i \in Range(ln_items[t]) :
                  Cardinality(Targets(seen[t], objs[t][i].link_to,
                                      scope[t], self_id[t])) > 1
                      => ~scope[t]
            /\ (scope[t] /\ pc[t] = "returned") =>
                  \A i \in Range(ln_items[t]) :
                      /\ Targets(seen[t], objs[t][i].link_to, TRUE, self_id[t]) # {}
                      /\ \A r \in Targets(seen[t], objs[t][i].link_to, TRUE, self_id[t]) :
                            /\ seen[t][r].publish_id = self_id[t]
                            /\ objs[t][i].object_key = seen[t][r].object_key
                            /\ objs[t][i].content_type = seen[t][r].content_type

\* An isolated call returned with the values of the row of its own publish
\* while another publish held a row with the same web_uri and another
\* object_key.
C16_Witness ==
    \E t \in Sessions :
        /\ pc[t] = "returned"
        /\ scope[t]
        /\ \E i \in Range(ln_items[t]), r, q \in DOMAIN seen[t] :
              /\ seen[t][r].web_uri = objs[t][i].link_to
              /\ seen[t][q].web_uri = objs[t][i].link_to
              /\ seen[t][r].publish_id = self_id[t]
              /\ seen[t][q].publish_id # self_id[t]
              /\ seen[t][q].object_key # seen[t][r].object_key
              /\ objs[t][i].object_key = seen[t][r].object_key

\* C17: when a call has returned, every linked item carries the values its
\* target row held in the table before the call, also where the target is
\* itself a linked item the call assigned to (no second hop), and the loop
\* would have left the same objects had it taken the linked items in any
\* other order.
C17_SingleHopAnyOrder ==
    \A t \in Sessions :
        pc[t] = "returned" =>
            /\ \A i \in LinkedOf(t) :
                  /\ snap[t][UsedRow(t, i)].web_uri = snap[t][i].link_to
                  /\ objs[t][i].object_key = snap[t][UsedRow(t, i)].object_key
                  /\ objs[t][i].content_type = snap[t][UsedRow(t, i)].content_type
            /\ \A o \in Orders(LinkedOf(t)) :
                  LET r == Loop(o, 1, matches[t], loaded[t], {})
                  IN  r.error = << >> /\ r.objs = objs[t]

\* A call returned on a chain A -> B -> C: B was given the values of C, and
\* A the values B had before the call, which are not those B has now.
C17_Witness ==
    \E t \in Sessions :
        /\ pc[t] = "returned"
        /\ \E a, b \in LinkedOf(t) :
              /\ a # b
              /\ UsedRow(t, a) = b
              /\ UsedRow(t, b) \notin LinkedOf(t)
              /\ objs[t][a].object_key = loaded[t][b].object_key
              /\ objs[t][a].object_key # objs[t][b].object_key

\* C19: a session holds locks only on rows of the publish its call is on
\* that have a link_to.  So the locking select of a call on a publish is
\* never kept waiting by calls on other publishes; a call on a publish
\* without linked item returns with no lock, no object loaded and nothing
\* assigned; and while calls hold their locks every item without link_to,
\* a link target included, can be updated by another transaction.
C19_LocksOnlyLinkedRows ==
    /\ \A i \in DOMAIN items :
          lockedBy[i] # NULL =>
              /\ pc[lockedBy[i]] # "idle"
              /\ items[i].publish_id = self_id[lockedBy[i]]
              /\ ~IsEmpty(items[i].link_to)
    /\ \A t \in Sessions, q \in PublishIds :
          (/\ pc[t] = "idle"
           /\ \A s \in Sessions \ {t} : pc[s] # "idle" => self_id[s] # q)
              => ENABLED ResolveSelect(t, q)
    /\ \A t \in Sessions :
          (pc[t] \in Ended /\ Linked(snap[t], self_id[t]) = {}) =>
              /\ pc[t] = "returned"
              /\ ln_items[t] = << >>
              /\ objs[t] = << >>
              /\ modified[t] = {}
              /\ \A i \in DOMAIN lockedBy : lockedBy[i] # t
    /\ \A i \in DOMAIN items :
          (IsEmpty(items[i].link_to) /\ writes < MaxWrites)
              => ENABLED UpdateItem(i, KeyPatch)

\* Two calls on two publishes hold their locks at the same time, and the
\* item the linked item of one of them points to, an item of that publish,
\* has been updated by another transaction since that call started.
C19_Witness ==
    /\ \A t \in Sessions :
          pc[t] # "idle" /\ \E i \in DOMAIN lockedBy : lockedBy[i] = t
    /\ self_id["T1"] # self_id["T2"]
    /\ op.kind = "update_item"
    /\ op.error = "none"
    /\ \E t \in Sessions : \E i \in Range(ln_items[t]) :
          /\ items[op.item].web_uri = items[i].link_to
          /\ items[op.item].publish_id = self_id[t]
          /\ snap[t][op.item] # items[op.item]

\* Two sessions are each in the locking select, each waiting for a row the
\* other has locked.
Deadlocked ==
    \E t, s \in Sessions :
        /\ t # s
        /\ pc[t] = "calling" /\ pc[s] = "calling"
        /\ \E k \in DOMAIN ln_items[t] :
              /\ lockedBy[ln_items[t][k]] = s
              /\ \A j \in 1..(k - 1) : lockedBy[ln_items[t][j]] = t
        /\ \E k \in DOMAIN ln_items[s] :
              /\ lockedBy[ln_items[s][k]] = t
              /\ \A j \in 1..(k - 1) : lockedBy[ln_items[s][j]] = s

\* C18 as stated: every call ends, by returning or by raising; a call that
\* waits for rows goes on; and two calls never wait for each other.
C18_CallsEndWithoutDeadlock ==
    /\ \A t \in Sessions :
          (pc[t] \in {"calling", "locked"}) ~> (pc[t] \in {"returned", "raised", "failed"})
    /\ \A t \in Sessions : (pc[t] = "calling") ~> (pc[t] # "calling")
    /\ []~Deadlocked

\* C18, the part that holds: every call ends, by returning, by raising its
\* HTTPException or by the database error of a broken deadlock, whatever
\* the link graph, and a select that waits goes on.
C18_CallsEnd ==
    /\ \A t \in Sessions :
          (pc[t] \in {"calling", "locked"}) ~> (pc[t] \in {"returned", "raised", "failed"})
    /\ \A t \in Sessions : (pc[t] = "calling") ~> (pc[t] # "calling")

=============================================================================
